---------------------------- MODULE Spec2Model ----------------------------
(* Instant-results helpers of ElasticPress                                 *)
(* (assets/js/instant-results/functions.js): the translation between       *)
(* search arguments and URL query parameters, the prefixed rewrite of the  *)
(* current URL, and the post-type extraction from a search form.           *)
(*                                                                         *)
(* Strings that the code inspects character by character (parameter keys   *)
(* and prefixes, for startsWith and for prefix + arg) are sequences of     *)
(* one-character strings; parameter values are plain strings.  JavaScript  *)
(* values are records [t, v]: t is the tag (undefined, null, str, num)     *)
(* and v the payload written as a string, so that the number 1 and the     *)
(* string "1" are different values with the same string conversion.        *)
EXTENDS Naturals, Sequences, FiniteSets

VARIABLES
    op,           \* the operation that returned last ("none" before any call)
    location,     \* window.location.href: [search, canon]
    paramPrefix,  \* getUrlWithParams: paramPrefix
    params,       \* getUrlWithParams: params, [given, list]
    args,         \* getUrlParamsFromArgs: args, ordered entries <<key, value>>
    schema,       \* both codec operations: schema, ordered entries <<arg, options>>
    prefix,       \* both codec operations: prefix
    urlParams,    \* getArgsFromUrlParams: urlParams, ordered pairs <<key, value>>
    useDefaults,  \* getArgsFromUrlParams: useDefaults
    form,         \* getPostTypesFromForm: the form's data, ordered pairs <<name, value>>
    ret,          \* the value returned by the last operation
    calls,        \* the sanitizer calls made by the last codec operation
    written       \* per argument group, the parameters of its most recent rewrite

vars == <<op, location, paramPrefix, params, args, schema, prefix, urlParams,
          useDefaults, form, ret, calls, written>>

--------------------------------------------------------------------------
(* Bounds of the checked input domain.                                     *)

MaxQueryLen == 2
MaxParamsLen == 2
MaxArgsLen == 2
MaxFormLen == 3

SeqsUpTo(S, n) == UNION {[1..k -> S] : k \in 0..n}

\* Parameter keys and prefixes, as character sequences.
Prefixes == {<<>>, <<"s">>}
ArgNames == {<<"q">>, <<"p">>}
UrlKeys == {<<"q">>, <<"s", "q">>, <<"s", "p">>}
UrlValues == {"1", "x"}
UrlPairs == UrlKeys \X UrlValues

--------------------------------------------------------------------------
(* JavaScript values.                                                      *)

Undefined == [t |-> "undefined", v |-> ""]
Null == [t |-> "null", v |-> ""]
Str(s) == [t |-> "str", v |-> s]
Num(d) == [t |-> "num", v |-> d]
True == [t |-> "bool", v |-> "true"]
False == [t |-> "bool", v |-> "false"]

\* String(value), as URLSearchParams.set converts the value it is given.
ToString(value) == IF value.t \in {"str", "num"} THEN value.v ELSE value.t

--------------------------------------------------------------------------
(* URLSearchParams: an ordered list of <<name, value>> pairs.              *)

StartsWith(key, p) ==
    /\ Len(p) <= Len(key)
    /\ SubSeq(key, 1, Len(p)) = p

SPKeys(list) == [i \in 1..Len(list) |-> list[i][1]]

SPHas(list, name) == \E i \in 1..Len(list) : list[i][1] = name

SPFirst(list, name) ==
    CHOOSE i \in 1..Len(list) :
        /\ list[i][1] = name
        /\ \A j \in 1..(i - 1) : list[j][1] # name

\* get: the first value of name as a string, null when there is none.
SPGet(list, name) ==
    IF SPHas(list, name) THEN Str(list[SPFirst(list, name)][2]) ELSE Null

SPGetAll(list, name) ==
    LET hits == SelectSeq(list, LAMBDA e : e[1] = name)
    IN [i \in 1..Len(hits) |-> hits[i][2]]

SPDelete(list, name) == SelectSeq(list, LAMBDA e : e[1] # name)

\* set: the first pair of name takes the value and the other pairs of name
\* are removed; with no pair of name, the pair is appended.
SPSet(list, name, value) ==
    IF SPHas(list, name)
    THEN LET i == SPFirst(list, name)
         IN SubSeq(list, 1, i - 1) \o <<<<name, value>>>>
                \o SPDelete(SubSeq(list, i + 1, Len(list)), name)
    ELSE Append(list, <<name, value>>)

--------------------------------------------------------------------------
(* getUrlWithParams.  A URL is [search, canon]: its query parameters in    *)
(* order, and whether its query string is the one URLSearchParams          *)
(* serializes (every delete and set rewrites the query string that way;    *)
(* an untouched query string stays as it was typed).                       *)

RECURSIVE DeletePrefixed(_, _, _, _)
DeletePrefixed(url, keys, i, paramPrefix_) ==
    IF i > Len(keys) THEN url
    ELSE IF StartsWith(keys[i], paramPrefix_)
         THEN DeletePrefixed([search |-> SPDelete(url.search, keys[i]), canon |-> TRUE],
                             keys, i + 1, paramPrefix_)
         ELSE DeletePrefixed(url, keys, i + 1, paramPrefix_)

RECURSIVE SetEach(_, _, _)
SetEach(url, list, i) ==
    IF i > Len(list) THEN url
    ELSE SetEach([search |-> SPSet(url.search, list[i][1], list[i][2]), canon |-> TRUE],
                 list, i + 1)

\* Variant: the query is cleared instead of stripped of the prefixed keys.
getUrlWithParams_ClearsQuery(href, paramPrefix_, params_) ==
    LET cleared == [search |-> <<>>, canon |-> href.canon \/ href.search # <<>>]
    IN IF params_.given THEN SetEach(cleared, params_.list, 1) ELSE cleared

\* Variant: the loop walks the live key iterator instead of a copy of the
\* keys, so the key that follows a deleted one is skipped.
RECURSIVE DeletePrefixedLive(_, _, _)
DeletePrefixedLive(url, i, paramPrefix_) ==
    IF i > Len(url.search) THEN url
    ELSE IF StartsWith(url.search[i][1], paramPrefix_)
         THEN DeletePrefixedLive(
                  [search |-> SPDelete(url.search, url.search[i][1]), canon |-> TRUE],
                  i + 1, paramPrefix_)
         ELSE DeletePrefixedLive(url, i + 1, paramPrefix_)

getUrlWithParams_LiveKeys(href, paramPrefix_, params_) ==
    LET stripped == DeletePrefixedLive(href, 1, paramPrefix_)
    IN IF params_.given THEN SetEach(stripped, params_.list, 1) ELSE stripped

\* Variant: a supplied pair is appended instead of set.
getUrlWithParams_Appends(href, paramPrefix_, params_) ==
    LET stripped == DeletePrefixed(href, SPKeys(href.search), 1, paramPrefix_)
    IN IF params_.given /\ params_.list # <<>>
       THEN [search |-> stripped.search \o params_.list, canon |-> TRUE]
       ELSE stripped

getUrlWithParams(href, paramPrefix_, params_) ==
    LET url == href
        keys == SPKeys(url.search)
        stripped == DeletePrefixed(url, keys, 1, paramPrefix_)
    IN IF params_.given THEN SetEach(stripped, params_.list, 1) ELSE stripped

NoParams == [given |-> FALSE, list |-> <<>>]
Given(list) == [given |-> TRUE, list |-> list]

Urls == [search : SeqsUpTo(UrlPairs, MaxQueryLen), canon : BOOLEAN]
ParamSets == {NoParams} \cup {Given(l) : l \in SeqsUpTo(UrlPairs, MaxParamsLen)}

EmptyUrl == [search |-> <<>>, canon |-> TRUE]

\* Variant: the computed URL is also installed as the current URL.
GetUrlWithParams_Navigates ==
    /\ op' = "getUrlWithParams"
    /\ ret' = getUrlWithParams(location, paramPrefix, params)
    /\ location' = getUrlWithParams(location, paramPrefix, params)
    /\ calls' = <<>>
    /\ UNCHANGED <<paramPrefix, params, args, schema, prefix, urlParams,
                   useDefaults, form, written>>

GetUrlWithParams ==
    /\ op' = "getUrlWithParams"
    /\ ret' = getUrlWithParams(location, paramPrefix, params)
    /\ calls' = <<>>
    /\ UNCHANGED <<location, paramPrefix, params, args, schema, prefix, urlParams,
                   useDefaults, form, written>>

InitUrl ==
    /\ op = "none"
    /\ location \in Urls
    /\ paramPrefix \in Prefixes
    /\ params \in ParamSets
    /\ args = <<>>
    /\ schema = <<>>
    /\ prefix = <<>>
    /\ urlParams = <<>>
    /\ useDefaults = TRUE
    /\ form = <<>>
    /\ ret = Undefined
    /\ calls = <<>>
    /\ written = <<>>

NextUrl == GetUrlWithParams

SpecUrl == InitUrl /\ [][NextUrl]_vars

--------------------------------------------------------------------------
(* The sanitizers of ./utilities, which functions.js imports and calls.    *)
(* An ArgSchema (options) is [type, default, allowedValues]: default is    *)
(* Undefined when the schema gives none, allowedValues is [has, vals].     *)

Digits == {"1", "2"}

NoAllowed == [has |-> FALSE, vals |-> {}]
Allowed(vals) == [has |-> TRUE, vals |-> vals]

\* The value checked against the schema's list of allowed values.
AllowedOrNull(value, options) ==
    IF value # Null /\ options.allowedValues.has /\ value \notin options.allowedValues.vals
    THEN Null
    ELSE value

\* A value the schema accepts: of the schema's type and allowed.
Accepted(value, options) ==
    /\ \/ options.type = "string" /\ value.t = "str"
       \/ options.type = "number" /\ value.t = "num"
    /\ AllowedOrNull(value, options) # Null

\* sanitizeParam(value, options) -> string | null: null for a value the
\* schema does not accept and for the schema's default.
sanitizeParam(value, options) ==
    IF Accepted(value, options) /\ value # options.default
    THEN Str(ToString(value))
    ELSE Null

\* sanitizeArg(raw, options, useDefaults) -> value | null: the raw string
\* read as the schema's type, null when it is missing or not accepted, and
\* the schema's default in place of null when useDefaults is set.
sanitizeArg(raw, options, useDefaults_) ==
    LET parsed == IF raw.t # "str" THEN Null
                  ELSE IF options.type = "string" THEN raw
                  ELSE IF options.type = "number" /\ raw.v \in Digits THEN Num(raw.v)
                  ELSE Null
        value == AllowedOrNull(parsed, options)
    IN IF value = Null /\ useDefaults_ = True /\ options.default # Undefined
       THEN options.default
       ELSE value

--------------------------------------------------------------------------
(* Plain objects (args, schema): ordered entries <<key, value>> with       *)
(* distinct keys, in the order Object.entries gives them.                  *)

\* object[key]: undefined for a key the object does not have.
Lookup(object, key) ==
    IF SPHas(object, key) THEN object[SPFirst(object, key)][2] ELSE Undefined

\* object[key] = value
Assign(object, key, value) ==
    IF SPHas(object, key)
    THEN [i \in 1..Len(object) |->
             IF object[i][1] = key THEN <<key, value>> ELSE object[i]]
    ELSE Append(object, <<key, value>>)

\* A parameter's default value, taken when the argument is undefined.
OrDefault(argument, default) == IF argument = Undefined THEN default ELSE argument

--------------------------------------------------------------------------
(* getUrlParamsFromArgs.  The fold carries the URLSearchParams built so    *)
(* far and the sanitizeParam calls made.                                   *)

RECURSIVE ParamsFromEntries(_, _, _, _, _)
ParamsFromEntries(acc, entries, i, args_, prefix_) ==
    IF i > Len(entries) THEN acc
    ELSE LET arg == entries[i][1]
             options == entries[i][2]
             param == prefix_ \o arg
             called == Lookup(args_, arg) # Undefined
             value == IF called THEN sanitizeParam(Lookup(args_, arg), options) ELSE Null
             call == [fn |-> "sanitizeParam", value |-> Lookup(args_, arg),
                      options |-> options, useDefaults |-> Undefined]
         IN ParamsFromEntries(
                [urlParams |-> IF value # Null
                               THEN SPSet(acc.urlParams, param, ToString(value))
                               ELSE acc.urlParams,
                 calls |-> IF called THEN Append(acc.calls, call) ELSE acc.calls],
                entries, i + 1, args_, prefix_)

\* Variant: the loop runs over the entries of args, not of the schema.
RECURSIVE ParamsFromArgEntries(_, _, _, _, _)
ParamsFromArgEntries(acc, entries, i, schema_, prefix_) ==
    IF i > Len(entries) THEN acc
    ELSE LET arg == entries[i][1]
             options == Lookup(schema_, arg)
             known == SPHas(schema_, arg) /\ entries[i][2] # Undefined
             value == IF known THEN sanitizeParam(entries[i][2], options) ELSE Null
         IN ParamsFromArgEntries(
                [urlParams |-> IF value # Null
                               THEN SPSet(acc.urlParams, prefix_ \o arg, ToString(value))
                               ELSE acc.urlParams,
                 calls |-> acc.calls],
                entries, i + 1, schema_, prefix_)

getUrlParamsFromArgs_ArgsOrder(args_, schema_, prefix_) ==
    ParamsFromArgEntries([urlParams |-> <<>>, calls |-> <<>>], args_, 1, schema_, prefix_)

getUrlParamsFromArgs(args_, schema_, prefix_) ==
    ParamsFromEntries([urlParams |-> <<>>, calls |-> <<>>], schema_, 1, args_, prefix_)

--------------------------------------------------------------------------
(* getArgsFromUrlParams.  The reduce carries the args object built so far  *)
(* and the sanitizeArg calls made.                                         *)

RECURSIVE ArgsFromEntries(_, _, _, _, _, _)
ArgsFromEntries(acc, entries, i, urlParams_, prefix_, useDefaults_) ==
    IF i > Len(entries) THEN acc
    ELSE LET arg == entries[i][1]
             options == entries[i][2]
             param == SPGet(urlParams_, prefix_ \o arg)
             called == param # Undefined
             value == IF called THEN sanitizeArg(param, options, useDefaults_) ELSE Null
             call == [fn |-> "sanitizeArg", value |-> param,
                      options |-> options, useDefaults |-> useDefaults_]
         IN ArgsFromEntries(
                [args |-> IF value # Null THEN Assign(acc.args, arg, value) ELSE acc.args,
                 calls |-> IF called THEN Append(acc.calls, call) ELSE acc.calls],
                entries, i + 1, urlParams_, prefix_, useDefaults_)

\* Variant: the parameter is read without the prefix.
getArgsFromUrlParams_NoPrefix(urlParams_, schema_, prefix_, useDefaults_) ==
    ArgsFromEntries([args |-> <<>>, calls |-> <<>>], schema_, 1, urlParams_, <<>>,
                    OrDefault(useDefaults_, True))

\* Variant: useDefaults is not passed on, so the sanitizer's own default
\* (true) applies.
getArgsFromUrlParams_DropsFlag(urlParams_, schema_, prefix_, useDefaults_) ==
    ArgsFromEntries([args |-> <<>>, calls |-> <<>>], schema_, 1, urlParams_, prefix_, True)

getArgsFromUrlParams(urlParams_, schema_, prefix_, useDefaults_) ==
    ArgsFromEntries([args |-> <<>>, calls |-> <<>>], schema_, 1, urlParams_, prefix_,
                    OrDefault(useDefaults_, True))

--------------------------------------------------------------------------
(* The codec's input domain.                                               *)

ArgSchemas ==
    { [type |-> "string", default |-> Undefined, allowedValues |-> NoAllowed],
      [type |-> "string", default |-> Str("x"), allowedValues |-> NoAllowed],
      [type |-> "number", default |-> Num("2"),
       allowedValues |-> Allowed({Num("1"), Num("2")})] }

ArgValues == {Undefined, Null, Str("x"), Str("1"), Num("1"), Num("2")}
ArgKeys == ArgNames \cup {<<"z">>}
ParamKeys == {p \o a : p \in Prefixes, a \in ArgNames}
ParamPairs == ParamKeys \X UrlValues

DistinctKeys(object) ==
    \A i, j \in 1..Len(object) : object[i][1] = object[j][1] => i = j

Schemas == {e \in SeqsUpTo(ArgNames \X ArgSchemas, Cardinality(ArgNames)) : DistinctKeys(e)}
ArgsObjects == {e \in SeqsUpTo(ArgKeys \X ArgValues, MaxArgsLen) : DistinctKeys(e)}
ParamLists == SeqsUpTo(ParamPairs, MaxQueryLen)

GetUrlParamsFromArgs ==
    LET r == getUrlParamsFromArgs(args, schema, prefix)
    IN /\ op' = "getUrlParamsFromArgs"
       /\ ret' = r.urlParams
       /\ calls' = r.calls
       /\ UNCHANGED <<location, paramPrefix, params, args, schema, prefix, urlParams,
                      useDefaults, form, written>>

GetArgsFromUrlParams ==
    LET r == getArgsFromUrlParams(urlParams, schema, prefix, useDefaults)
    IN /\ op' = "getArgsFromUrlParams"
       /\ ret' = r.args
       /\ calls' = r.calls
       /\ UNCHANGED <<location, paramPrefix, params, args, schema, prefix, urlParams,
                      useDefaults, form, written>>

\* The caller hands the parameters it got from getUrlParamsFromArgs to
\* getArgsFromUrlParams.
PassBack ==
    /\ op = "getUrlParamsFromArgs"
    /\ op' = "passBack"
    /\ urlParams' = ret
    /\ UNCHANGED <<location, paramPrefix, params, args, schema, prefix, useDefaults,
                   form, ret, calls, written>>

InitSerialize ==
    /\ op = "none"
    /\ location = EmptyUrl
    /\ paramPrefix = <<>>
    /\ params = NoParams
    /\ args \in ArgsObjects
    /\ schema \in Schemas
    /\ prefix \in Prefixes
    /\ urlParams = <<>>
    /\ useDefaults = False
    /\ form = <<>>
    /\ ret = Undefined
    /\ calls = <<>>
    /\ written = <<>>

\* The round trip: serialize, hand the result back, deserialize it.
NextSerialize ==
    \/ GetUrlParamsFromArgs
    \/ PassBack
    \/ (op = "passBack" /\ GetArgsFromUrlParams)

SpecSerialize == InitSerialize /\ [][NextSerialize]_vars

InitDeserialize ==
    /\ op = "none"
    /\ location = EmptyUrl
    /\ paramPrefix = <<>>
    /\ params = NoParams
    /\ args = <<>>
    /\ schema \in Schemas
    /\ prefix \in Prefixes
    /\ urlParams \in ParamLists
    /\ useDefaults \in {Undefined, True, False}
    /\ form = <<>>
    /\ ret = Undefined
    /\ calls = <<>>
    /\ written = <<>>

NextDeserialize == GetArgsFromUrlParams

SpecDeserialize == InitDeserialize /\ [][NextDeserialize]_vars

--------------------------------------------------------------------------
(* getPostTypesFromForm.  The form's data (FormData) is the ordered list   *)
(* of its <<name, value>> entries.                                         *)

FormNames == {"post_type", "post_type[]", "s"}
FormValues == {"post", "page"}
Forms == SeqsUpTo(FormNames \X FormValues, MaxFormLen)

\* array.slice(-1): the last element alone, nothing of an empty array.
SliceLast(array) == IF array = <<>> THEN <<>> ELSE <<array[Len(array)]>>

\* Variant: the first post_type value is taken, slice(0, 1).
getPostTypesFromForm_First(form_) ==
    LET data == form_
    IN IF SPHas(data, "post_type")
       THEN SubSeq(SPGetAll(data, "post_type"), 1, 1)
       ELSE IF SPHas(data, "post_type[]")
            THEN SPGetAll(data, "post_type[]")
            ELSE <<>>

getPostTypesFromForm(form_) ==
    LET data == form_
    IN IF SPHas(data, "post_type")
       THEN SliceLast(SPGetAll(data, "post_type"))
       ELSE IF SPHas(data, "post_type[]")
            THEN SPGetAll(data, "post_type[]")
            ELSE <<>>

GetPostTypesFromForm ==
    /\ op' = "getPostTypesFromForm"
    /\ ret' = getPostTypesFromForm(form)
    /\ calls' = <<>>
    /\ UNCHANGED <<location, paramPrefix, params, args, schema, prefix, urlParams,
                   useDefaults, form, written>>

InitForm ==
    /\ op = "none"
    /\ location = EmptyUrl
    /\ paramPrefix = <<>>
    /\ params = NoParams
    /\ args = <<>>
    /\ schema = <<>>
    /\ prefix = <<>>
    /\ urlParams = <<>>
    /\ useDefaults = Undefined
    /\ form \in Forms
    /\ ret = Undefined
    /\ calls = <<>>
    /\ written = <<>>

NextForm == GetPostTypesFromForm

SpecForm == InitForm /\ [][NextForm]_vars

--------------------------------------------------------------------------
(* The three codec operations called in any order on any of their inputs.  *)

InitOps == InitUrl \/ InitSerialize \/ InitDeserialize

NextOps == GetUrlWithParams \/ GetUrlParamsFromArgs \/ GetArgsFromUrlParams

SpecOps == InitOps /\ [][NextOps]_vars

--------------------------------------------------------------------------
(* Argument groups sharing the URL: each group has a prefix and a schema,  *)
(* and a caller that serializes the group's args under the prefix,         *)
(* rewrites the URL for that prefix and installs the returned URL.         *)

Groups == {1, 2}
GroupPrefixes == Prefixes \cup {<<"t">>, <<"s", "t">>}

GroupSchema(g) ==
    IF g = 1
    THEN << <<<<"q">>, [type |-> "string", default |-> Undefined,
                        allowedValues |-> NoAllowed]>>,
            <<<<"p">>, [type |-> "number", default |-> Num("2"),
                        allowedValues |-> Allowed({Num("1"), Num("2")})]>> >>
    ELSE << <<<<"q">>, [type |-> "string", default |-> Str("x"),
                        allowedValues |-> NoAllowed]>> >>

\* The args a group's caller holds: values its schema accepts.
GroupEntries(g) ==
    {e \in ArgKeys \X ArgValues :
        /\ SPHas(GroupSchema(g), e[1])
        /\ Accepted(e[2], Lookup(GroupSchema(g), e[1]))}

GroupArgs(g) == {a \in SeqsUpTo(GroupEntries(g), MaxArgsLen) : DistinctKeys(a)}

GroupRewrite(g) ==
    \E a \in GroupArgs(g) :
        LET p == written[g].prefix
            serialized == getUrlParamsFromArgs(a, GroupSchema(g), p).urlParams
            url == getUrlWithParams(location, p, Given(serialized))
        IN /\ op' = "install"
           /\ args' = a
           /\ schema' = GroupSchema(g)
           /\ prefix' = p
           /\ paramPrefix' = p
           /\ params' = Given(serialized)
           /\ ret' = url
           /\ location' = url
           /\ written' = [written EXCEPT ![g] = [prefix |-> p, done |-> TRUE,
                                                 params |-> serialized]]
           /\ UNCHANGED <<urlParams, useDefaults, form, calls>>

InitGroups ==
    /\ op = "none"
    /\ location \in Urls
    /\ paramPrefix = <<>>
    /\ params = NoParams
    /\ args = <<>>
    /\ schema = <<>>
    /\ prefix = <<>>
    /\ urlParams = <<>>
    /\ useDefaults = False
    /\ form = <<>>
    /\ ret = Undefined
    /\ calls = <<>>
    /\ written \in {w \in [Groups -> [prefix : GroupPrefixes, done : {FALSE},
                                        params : {<<>>}]] :
                        \A g, h \in Groups : w[g].prefix = w[h].prefix => g = h}

NextGroups == \E g \in Groups : GroupRewrite(g)

SpecGroups == InitGroups /\ [][NextGroups]_vars

--------------------------------------------------------------------------
(* Claims about getUrlWithParams, checked under SpecUrl.                   *)

Rewritten == op = "getUrlWithParams"

Outside(list, p) == SelectSeq(list, LAMBDA e : ~StartsWith(e[1], p))

\* The k-th smallest element of a finite set of numbers.
Nth(S, k) == CHOOSE x \in S : Cardinality({y \in S : y < x}) = k - 1

FirstOcc(list, i) == \A j \in 1..(i - 1) : list[j][1] # list[i][1]

LastValue(list, name) ==
    LET i == CHOOSE j \in 1..Len(list) :
                 /\ list[j][1] = name
                 /\ \A m \in (j + 1)..Len(list) : list[m][1] # name
    IN list[i][2]

\* What setting every pair of list, in order, makes of base: a key of list
\* keeps the place of its first pair in base (or, new to base, is added at
\* the end in the order list first names it) with the last value list
\* gives it; the other pairs of base stay as they are.
AfterSets(base, list) ==
    LET keptIdx == {i \in 1..Len(base) :
                       ~SPHas(list, base[i][1]) \/ FirstOcc(base, i)}
        kept == [k \in 1..Cardinality(keptIdx) |->
                    LET e == base[Nth(keptIdx, k)]
                    IN IF SPHas(list, e[1]) THEN <<e[1], LastValue(list, e[1])>> ELSE e]
        newIdx == {i \in 1..Len(list) :
                      FirstOcc(list, i) /\ ~SPHas(base, list[i][1])}
        added == [k \in 1..Cardinality(newIdx) |->
                    LET e == list[Nth(newIdx, k)]
                    IN <<e[1], LastValue(list, e[1])>>]
    IN kept \o added

\* C4: getUrlWithParams returns the current URL with every parameter under
\* the prefix removed (all occurrences) and then every supplied pair set, in
\* the order of params; without params only the prefixed ones are stripped.
C4_RewriteContract ==
    Rewritten =>
        ret.search = IF params.given
                     THEN AfterSets(Outside(location.search, paramPrefix), params.list)
                     ELSE Outside(location.search, paramPrefix)

C4_Witness ==
    /\ Rewritten
    /\ params.given
    /\ paramPrefix # <<>>
    /\ \E i \in 1..Len(location.search) : StartsWith(location.search[i][1], paramPrefix)
    /\ \E i \in 1..Len(params.list) :
           /\ SPHas(Outside(location.search, paramPrefix), params.list[i][1])
           /\ SPGet(location.search, params.list[i][1]) # Str(params.list[i][2])
    /\ \E i \in 1..Len(params.list) : ~SPHas(location.search, params.list[i][1])

\* C2 as stated: every parameter of the current URL whose key does not
\* start with the prefix is in the returned URL with the same values and
\* the same number of occurrences, whatever parameter set is supplied.
C2_OutsideKeptForAnyParams ==
    Rewritten =>
        \A k \in UrlKeys :
            (SPHas(location.search, k) /\ ~StartsWith(k, paramPrefix)) =>
                SPGetAll(ret.search, k) = SPGetAll(location.search, k)

\* C2 amended: the same for every key that does not start with the prefix
\* and that the supplied parameter set does not name.
C2_OutsideKeptUnlessSupplied ==
    Rewritten =>
        \A k \in UrlKeys :
            (/\ SPHas(location.search, k)
             /\ ~StartsWith(k, paramPrefix)
             /\ ~SPHas(params.list, k)) =>
                SPGetAll(ret.search, k) = SPGetAll(location.search, k)

C2_Witness ==
    /\ Rewritten
    /\ params.given /\ params.list # <<>>
    /\ \E i, j \in 1..Len(location.search) :
           /\ StartsWith(location.search[i][1], paramPrefix)
           /\ ~StartsWith(location.search[j][1], paramPrefix)
           /\ ~SPHas(params.list, location.search[j][1])
           /\ SPHas(ret.search, location.search[j][1])
           /\ ~SPHas(ret.search, location.search[i][1])

AllUnderPrefix(list, p) == \A i \in 1..Len(list) : StartsWith(list[i][1], p)

\* C7 as stated: for every URL, prefix and parameter set, the rewrite of
\* the returned URL with the same prefix and parameters is that URL again.
C7_IdempotentForAnyParams ==
    Rewritten => getUrlWithParams(ret, paramPrefix, params) = ret

\* C7 amended: the same when every supplied key starts with the prefix.
C7_IdempotentUnderPrefix ==
    (Rewritten /\ AllUnderPrefix(params.list, paramPrefix)) =>
        getUrlWithParams(ret, paramPrefix, params) = ret

C7_Witness ==
    /\ Rewritten
    /\ paramPrefix # <<>>
    /\ Len(params.list) = 2
    /\ params.list[1][1] # params.list[2][1]
    /\ AllUnderPrefix(params.list, paramPrefix)
    /\ Len(location.search) = 2
    /\ StartsWith(location.search[1][1], paramPrefix)
    /\ ~StartsWith(location.search[2][1], paramPrefix)
    /\ ret # location

--------------------------------------------------------------------------
(* Claims about getUrlParamsFromArgs, checked under SpecSerialize.         *)

Serialized == op = "getUrlParamsFromArgs"

\* The schema entries that yield a parameter: the argument is defined and
\* its sanitized value is not null.
Emitting(args_, schema_) ==
    {i \in 1..Len(schema_) :
        /\ Lookup(args_, schema_[i][1]) # Undefined
        /\ sanitizeParam(Lookup(args_, schema_[i][1]), schema_[i][2]) # Null}

\* C5: getUrlParamsFromArgs returns exactly one entry prefix+key ->
\* sanitizeParam(args[key], schema[key]) for each schema key whose argument
\* is defined and whose sanitized value is not null, in schema order; a
\* schema key that args lacks and a key of args outside the schema yield
\* nothing.
C5_SerializeContract ==
    Serialized =>
        LET emit == Emitting(args, schema)
        IN ret = [k \in 1..Cardinality(emit) |->
                     LET e == schema[Nth(emit, k)]
                     IN <<prefix \o e[1], sanitizeParam(Lookup(args, e[1]), e[2]).v>>]

C5_Witness ==
    /\ Serialized
    /\ prefix # <<>>
    /\ Len(schema) = 2 /\ Len(args) = 2 /\ Len(ret) = 2
    /\ args[1][1] = schema[2][1]
    /\ args[2][1] = schema[1][1]
    /\ ret[1][1] = prefix \o schema[1][1]

RoundTripped ==
    /\ op = "getArgsFromUrlParams"
    /\ useDefaults = False
    /\ urlParams = getUrlParamsFromArgs(args, schema, prefix).urlParams

\* C1 as stated: deserializing (useDefaults = false) what serializing args
\* gave restores every key of args whose value the schema accepts.
C1_RoundTripRestoresAccepted ==
    RoundTripped =>
        \A i \in 1..Len(args) :
            (SPHas(schema, args[i][1]) /\ Accepted(args[i][2], Lookup(schema, args[i][1])))
                => Lookup(ret, args[i][1]) = args[i][2]

\* C1 amended: the round trip restores every key of args whose value the
\* schema accepts and sanitizeParam did not suppress; a key whose accepted
\* value is the schema's default is absent from the result.
C1_RoundTripRestoresEmitted ==
    RoundTripped =>
        \A i \in 1..Len(args) :
            (SPHas(schema, args[i][1]) /\ Accepted(args[i][2], Lookup(schema, args[i][1])))
                => IF sanitizeParam(args[i][2], Lookup(schema, args[i][1])) = Null
                   THEN ~SPHas(ret, args[i][1])
                   ELSE Lookup(ret, args[i][1]) = args[i][2]

C1_Witness ==
    /\ RoundTripped
    /\ prefix # <<>>
    /\ Len(args) = 2 /\ Len(urlParams) = 1 /\ Len(ret) = 1
    /\ \E i, j \in 1..2 :
           /\ SPHas(schema, args[i][1]) /\ SPHas(schema, args[j][1])
           /\ args[i][2].t = "num"
           /\ Lookup(ret, args[i][1]) = args[i][2]
           /\ args[j][2] = Lookup(schema, args[j][1]).default
           /\ ~SPHas(ret, args[j][1])

--------------------------------------------------------------------------
(* Claims about getArgsFromUrlParams, checked under SpecDeserialize.       *)

Deserialized == op = "getArgsFromUrlParams"

\* The two parameter sets give every schema key's parameter the same first
\* value, or both lack it.
Agree(u1, u2, schema_, prefix_) ==
    \A i \in 1..Len(schema_) :
        /\ SPHas(u1, prefix_ \o schema_[i][1]) = SPHas(u2, prefix_ \o schema_[i][1])
        /\ SPHas(u1, prefix_ \o schema_[i][1]) =>
               u1[SPFirst(u1, prefix_ \o schema_[i][1])][2]
                   = u2[SPFirst(u2, prefix_ \o schema_[i][1])][2]

\* Parameter sets near u: u with a pair added in front or at the end, with
\* one pair removed, and u cut down to the first pair of each schema key.
Variations(u, schema_, prefix_) ==
    {<<e>> \o u : e \in ParamPairs}
        \cup {Append(u, e) : e \in ParamPairs}
        \cup {SubSeq(u, 1, i - 1) \o SubSeq(u, i + 1, Len(u)) : i \in 1..Len(u)}
        \cup {SelectSeq(u, LAMBDA e :
                  /\ \E i \in 1..Len(schema_) : e[1] = prefix_ \o schema_[i][1]
                  /\ e[2] = u[SPFirst(u, e[1])][2])}

\* C3: parameter sets that agree on the first value of prefix+key for
\* every schema key give the same result, whatever else they hold, and
\* every key of the result is a key of the schema.
C3_DeserializeReadsOnlyItsKeys ==
    Deserialized =>
        /\ \A u \in Variations(urlParams, schema, prefix) :
               Agree(urlParams, u, schema, prefix) =>
                   getArgsFromUrlParams(u, schema, prefix, useDefaults).args = ret
        /\ \A i \in 1..Len(ret) : SPHas(schema, ret[i][1])

C3_Witness ==
    /\ Deserialized
    /\ prefix # <<>>
    /\ Len(ret) = 1
    /\ Len(urlParams) = 2
    /\ \E i \in 1..2 : ~StartsWith(urlParams[i][1], prefix)
    /\ \E u \in Variations(urlParams, schema, prefix) :
           /\ Agree(urlParams, u, schema, prefix)
           /\ Len(u) = 3
           /\ u[3][1] = prefix \o ret[1][1]
           /\ u[3][2] # ToString(ret[1][2])

\* The raw value sanitizeArg is to get for a schema key: the first value
\* of its parameter, absent when the parameter is absent.
RawOr(absent, arg) ==
    IF SPHas(urlParams, prefix \o arg)
    THEN Str(urlParams[SPFirst(urlParams, prefix \o arg)][2])
    ELSE absent

DeserializeContract(absent) ==
    /\ Len(calls) = Len(schema)
    /\ \A i \in 1..Len(schema) :
           LET arg == schema[i][1]
               options == schema[i][2]
               flag == IF useDefaults = Undefined THEN True ELSE useDefaults
               value == sanitizeArg(RawOr(absent, arg), options, flag)
           IN /\ calls[i] = [fn |-> "sanitizeArg", value |-> RawOr(absent, arg),
                              options |-> options, useDefaults |-> flag]
              /\ IF value # Null
                 THEN Lookup(ret, arg) = value
                 ELSE ~SPHas(ret, arg)
              /\ ~SPHas(urlParams, prefix \o arg) =>
                     IF flag = True /\ options.default # Undefined
                     THEN Lookup(ret, arg) = options.default
                     ELSE ~SPHas(ret, arg)

\* C6 as stated: sanitizeArg is called once per schema key, with the raw
\* value of prefix+key when present and with undefined when absent, and
\* with the caller's useDefaults (true when not given); the result holds
\* the value when it is not null and no entry when it is null, so an
\* absent parameter yields the default under useDefaults, else no entry.
C6_CalledWithUndefinedWhenAbsent ==
    Deserialized => DeserializeContract(Undefined)

\* C6 amended: the same, with null (what URLSearchParams.get returns for
\* an absent parameter) as the raw value when the parameter is absent.
C6_CalledWithNullWhenAbsent ==
    Deserialized => DeserializeContract(Null)

C6_Witness ==
    /\ Deserialized
    /\ useDefaults = False
    /\ prefix # <<>>
    /\ Len(schema) = 2 /\ Len(ret) = 1
    /\ SPHas(urlParams, prefix \o schema[1][1])
    /\ ~SPHas(urlParams, prefix \o schema[2][1])
    /\ schema[2][2].default # Undefined
    /\ calls[2].value = Null

--------------------------------------------------------------------------
(* Claim about getPostTypesFromForm, checked under SpecForm.               *)

Entries(list, name) == {i \in 1..Len(list) : list[i][1] = name}

\* C8: with a post_type entry the result is the last post_type value alone
\* and the post_type[] entries are ignored; with none but post_type[]
\* entries it is all post_type[] values in order; with neither it is empty.
C8_PostTypePrecedence ==
    op = "getPostTypesFromForm" =>
        LET single == Entries(form, "post_type")
            multi == Entries(form, "post_type[]")
        IN IF single # {}
           THEN ret = <<form[Nth(single, Cardinality(single))][2]>>
           ELSE ret = [k \in 1..Cardinality(multi) |-> form[Nth(multi, k)][2]]

C8_Witness ==
    /\ op = "getPostTypesFromForm"
    /\ Len(form) = 3
    /\ form[1][1] = "post_type" /\ form[3][1] = "post_type"
    /\ form[2][1] = "post_type[]"
    /\ form[1][2] # form[3][2]
    /\ ret = <<form[3][2]>>

--------------------------------------------------------------------------
(* Claim about all three codec operations, checked under SpecOps.          *)

\* C9: no call changes what it was given: the current URL, the supplied
\* parameter set and prefix, args, the schema and urlParams are after
\* every step what they were before it, so the current URL stays at its
\* initial value through any sequence of calls.
C9_OperationsLeaveInputs ==
    [][/\ location' = location
       /\ paramPrefix' = paramPrefix
       /\ params' = params
       /\ args' = args
       /\ schema' = schema
       /\ prefix' = prefix
       /\ urlParams' = urlParams
       /\ useDefaults' = useDefaults]_vars

C9_Witness ==
    /\ op = "getUrlWithParams"
    /\ params.given /\ params.list # <<>>
    /\ \E i \in 1..Len(location.search) : StartsWith(location.search[i][1], paramPrefix)
    /\ ret.search # location.search

--------------------------------------------------------------------------
(* Claim about argument groups, checked under SpecGroups.                  *)

\* What a group reads from the current URL, and what it reads from the
\* parameters of its most recent rewrite.
GroupReads(g, list) ==
    getArgsFromUrlParams(list, GroupSchema(g), written[g].prefix, False).args

Unaffected(g) == GroupReads(g, location.search) = GroupReads(g, written[g].params)

\* Neither group's prefix is the start of the other's.
DisjointNamespaces ==
    \A g, h \in Groups :
        g # h => ~StartsWith(written[g].prefix, written[h].prefix)

\* C10 as stated: with distinct prefixes, after any sequence of rewrites
\* every group reads from the current URL what its own most recent
\* rewrite serialized.
C10_IsolatedWithDistinctPrefixes ==
    \A g \in Groups : written[g].done => Unaffected(g)

\* C10 amended: the same when neither prefix is the start of the other.
C10_IsolatedWithDisjointPrefixes ==
    DisjointNamespaces => \A g \in Groups : written[g].done => Unaffected(g)

C10_Witness ==
    /\ DisjointNamespaces
    /\ \A g \in Groups : written[g].done /\ written[g].params # <<>>
    /\ paramPrefix = written[1].prefix
    /\ Len(written[1].params) = 2
    /\ Len(location.search) = 4
    /\ location.search[1][1] = <<"q">>

==========================================================================
